---------------------------- MODULE Spec2Model ----------------------------
(***************************************************************************)
(* The user-account model of authentication/models.py: UserManager         *)
(* (create_user, create_superuser) writing User rows to a relational       *)
(* table whose email column is unique, and User.token, which signs a JWT   *)
(* carrying the row's primary key and an expiry.                           *)
(*                                                                         *)
(* Text values (names, emails, passwords) are tuples of one-character      *)
(* strings, so that normalisation and hashing act on their characters.     *)
(* Times are whole seconds; a millisecond quantity is written as the       *)
(* record [sec, per] standing for sec * per milliseconds, because the      *)
(* millisecond count of sixty days does not fit a 32-bit integer.          *)
(***************************************************************************)
EXTENDS Integers, Sequences, FiniteSets

VARIABLES
    users,      \* the User table: users[pk] is the row with primary key pk
    pc,         \* pc[c]: where call c of the manager stands
    op,         \* op[c]: the manager method call c invokes
    args,       \* args[c]: the arguments call c was made with
    user,       \* user[c]: the in-memory User instance call c is building
    err,        \* err[c]: the exception call c raised
    collation,  \* how the table's unique index compares emails
    tzOffset,   \* the process's local time-zone offset from UTC, in seconds
    secret,     \* settings.SECRET_KEY
    lastIssue   \* the last read of User.token: account, instant, token

vars == <<users, pc, op, args, user, err, collation, tzOffset, secret, lastIssue>>

----------------------------------------------------------------------------
(* Bounds and input sets *)

\* token reads happen at the instants 0 .. MaxClock (seconds, UTC)
MaxClock == 1

\* the calls of the manager made in one run
Calls == {1, 2}

\* Python's None, as a text value that is no string
None == <<"None">>

Ann == <<"A", "n", "n">>
Lee == <<"L", "e", "e">>

FirstNames == {None, Ann}
LastNames == {None, Lee}

\* a@b, A@b, a@B: the same address up to letter case
EmailInputs == {<<"a", "@", "b">>, <<"A", "@", "b">>, <<"a", "@", "B">>}
Emails == {None} \cup EmailInputs

\* no password, the empty string, "pw"
Passwords == {None, <<>>, <<"p", "w">>}

\* the random salts the password hasher draws
Salts == {"s1"}

\* the local time-zone offsets a process may run under, in seconds
TzOffsets == {-18000, 0, 3600}

Collations == {"binary", "nocase"}

NoUser == [pk |-> 0]
NoError == [kind |-> "none", msg |-> "none"]
NoArgs == [none |-> TRUE]
NoIssue == [pk |-> 0]

----------------------------------------------------------------------------
(* Text helpers *)

LowerChar(ch) ==
    CASE ch = "A" -> "a"
      [] ch = "B" -> "b"
      [] OTHER -> ch

\* str.lower()
Lower(s) == [i \in 1..Len(s) |-> LowerChar(s[i])]

IsSpace(ch) == ch = " "

RECURSIVE LStrip(_)
LStrip(s) == IF s # <<>> /\ IsSpace(Head(s)) THEN LStrip(Tail(s)) ELSE s

RECURSIVE RStrip(_)
RStrip(s) ==
    IF s # <<>> /\ IsSpace(s[Len(s)]) THEN RStrip(SubSeq(s, 1, Len(s) - 1)) ELSE s

\* str.strip()
Strip(s) == LStrip(RStrip(s))

\* the index of the last "@" of s, 0 when s has none
LastAt(s) ==
    LET at == {i \in 1..Len(s) : s[i] = "@"}
    IN IF at = {} THEN 0 ELSE CHOOSE i \in at : \A j \in at : j <= i

\* variant: the email stored as it was given
NormalizeEmailIdentity(email) ==
    IF email = None THEN <<>> ELSE email

\* BaseUserManager.normalize_email: None becomes the empty string; an address
\* with an "@" is stripped and the part after its last "@" is lowercased; any
\* other text is returned as it is.
NormalizeEmail(email) ==
    LET e == IF email = None THEN <<>> ELSE email
        s == Strip(e)
        k == LastAt(s)
    IN IF k = 0
       THEN e
       ELSE SubSeq(s, 1, k - 1) \o <<"@">> \o Lower(SubSeq(s, k + 1, Len(s)))

----------------------------------------------------------------------------
(* Password hashing (AbstractBaseUser.set_password / check_password) *)

\* the digest of a raw password under a salt, never the raw password itself
Digest(raw, salt) == <<"H", salt>> \o raw

\* variant: the raw password kept as the stored value
MakePasswordRaw(raw, salt) ==
    IF raw = None THEN <<>> ELSE raw

\* make_password: None yields the unusable marker "!" and a random suffix,
\* anything else (the empty string included) an encoded hash
MakePassword(raw, salt) ==
    IF raw = None
    THEN <<"!", salt>>
    ELSE <<"pbkdf2_sha256", "$", salt, "$">> \o Digest(raw, salt)

IsPasswordUsable(encoded) == encoded # <<>> /\ encoded[1] # "!"

CheckPassword(raw, encoded) ==
    /\ raw # None
    /\ IsPasswordUsable(encoded)
    /\ Len(encoded) >= 3
    /\ encoded = MakePassword(raw, encoded[3])

----------------------------------------------------------------------------
(* UserManager.create_user, lines 24-41 *)

TypeError(msg) == [kind |-> "TypeError", msg |-> msg]
IntegrityError == [kind |-> "IntegrityError", msg |-> "UNIQUE constraint failed: email"]
DatabaseError == [kind |-> "DatabaseError", msg |-> "save failed"]

\* variant: the email guard left out
ValidateNoEmailCheck(a) ==
    IF a.firstname = None THEN TypeError("Users must have a fist name.")
    ELSE IF a.lastname = None THEN TypeError("Users must have a last name.")
    ELSE NoError

\* variant: the guards raising ValueError
ValidateValueError(a) ==
    IF a.firstname = None THEN [kind |-> "ValueError", msg |-> "Users must have a fist name."]
    ELSE IF a.lastname = None THEN [kind |-> "ValueError", msg |-> "Users must have a last name."]
    ELSE IF a.email = None THEN [kind |-> "ValueError", msg |-> "Users must have an email address."]
    ELSE NoError

\* the three guards of create_user, in the code's order
Validate(a) ==
    IF a.firstname = None THEN TypeError("Users must have a fist name.")
    ELSE IF a.lastname = None THEN TypeError("Users must have a last name.")
    ELSE IF a.email = None THEN TypeError("Users must have an email address.")
    ELSE NoError

\* variant: the instance built with the administrative flags set
NewUserAdmin(a) ==
    [pk |-> 0, firstname |-> a.firstname, lastname |-> a.lastname,
     email |-> NormalizeEmail(a.email), password |-> <<>>,
     is_active |-> TRUE, is_staff |-> TRUE, is_superuser |-> TRUE]

\* self.model(...): the unsaved instance, with the fields' defaults
NewUser(a) ==
    [pk |-> 0, firstname |-> a.firstname, lastname |-> a.lastname,
     email |-> NormalizeEmail(a.email), password |-> <<>>,
     is_active |-> TRUE, is_staff |-> FALSE, is_superuser |-> FALSE]

\* user.set_password(password)
SetPassword(u, raw, salt) == [u EXCEPT !.password = MakePassword(raw, salt)]


----------------------------------------------------------------------------
(* The User table: Model.save() and the unique index on email, line 81 *)

\* whether the unique index takes two emails for the same key: a binary
\* collation compares them as they are, a case-insensitive one folds case
EmailsCollide(e1, e2) ==
    IF collation = "binary" THEN e1 = e2 ELSE Lower(e1) = Lower(e2)

\* variant: an email column with no unique index
UniqueViolationOff(store, u) == FALSE

\* the INSERT of u would break the unique index
UniqueViolation(store, u) ==
    \E pk \in DOMAIN store : EmailsCollide(store[pk].email, u.email)

\* save() of an instance with no pk: INSERT, the table assigns the next pk
SaveInsert(store, u) == Append(store, [u EXCEPT !.pk = Len(store) + 1])

\* variant: an UPDATE with no WHERE clause, written to every row
SaveUpdateAll(store, u) == [pk \in DOMAIN store |-> [u EXCEPT !.pk = pk]]

\* save() of an instance with a pk: UPDATE of every field of that row
SaveUpdate(store, u) == [store EXCEPT ![u.pk] = u]

----------------------------------------------------------------------------
(* User._generate_jwt_token, lines 155-167 *)

\* timedelta(days=60), in seconds
SixtyDays == 60 * 24 * 3600

\* datetime.now(): the naive local wall-clock time at the UTC instant t
LocalNow(t) == t + tzOffset

\* variant: the id claim depending on is_staff
GenerateJwtTokenStaff(self, localNow, key) ==
    [id |-> IF self.is_staff THEN 0 ELSE self.pk,
     exp |-> [sec |-> localNow + SixtyDays, per |-> 1000],
     alg |-> "HS256", key |-> key]

\* localNow is datetime.now(); replace(tzinfo=utc) reads that wall-clock time
\* as if it were UTC, and timestamp() * 1000 makes it milliseconds
GenerateJwtToken(self, localNow, key) ==
    [id |-> self.pk,
     exp |-> [sec |-> localNow + SixtyDays, per |-> 1000],
     alg |-> "HS256", key |-> key]

----------------------------------------------------------------------------
(* The state machine *)

Init ==
    /\ users = <<>>
    /\ pc = [c \in Calls |-> "idle"]
    /\ op = [c \in Calls |-> "none"]
    /\ args = [c \in Calls |-> NoArgs]
    /\ user = [c \in Calls |-> NoUser]
    /\ err = [c \in Calls |-> NoError]
    /\ collation \in Collations
    /\ tzOffset \in TzOffsets
    /\ secret = "SECRET_KEY"
    /\ lastIssue = NoIssue

Env == <<collation, tzOffset, secret>>

\* lines 24-38 of create_user for call c: the guards, then the instance is
\* built and its password set; the save is the call's next step
Build(c, a, salt) ==
    LET v == Validate(a)
    IN IF v # NoError
       THEN /\ pc' = [pc EXCEPT ![c] = "failed"]
            /\ err' = [err EXCEPT ![c] = v]
            /\ user' = user
       ELSE /\ pc' = [pc EXCEPT ![c] = "save"]
            /\ user' = [user EXCEPT ![c] = SetPassword(NewUser(a), a.password, salt)]
            /\ err' = err

\* UserManager.create_user is called
CreateUser(c, a, salt) ==
    /\ pc[c] = "idle"
    /\ op' = [op EXCEPT ![c] = "create_user"]
    /\ args' = [args EXCEPT ![c] = a]
    /\ Build(c, a, salt)
    /\ UNCHANGED <<users, Env, lastIssue>>

\* UserManager.create_superuser is called: lines 47-50, the password guard
\* and then the delegated create_user up to its save
CreateSuperuser(c, a, salt) ==
    /\ pc[c] = "idle"
    /\ op' = [op EXCEPT ![c] = "create_superuser"]
    /\ args' = [args EXCEPT ![c] = a]
    /\ IF a.password = None
       THEN /\ pc' = [pc EXCEPT ![c] = "failed"]
            /\ err' = [err EXCEPT ![c] = TypeError("Superusers must have a password.")]
            /\ user' = user
       ELSE Build(c, a, salt)
    /\ UNCHANGED <<users, Env, lastIssue>>

\* line 39, user.save(): the INSERT, refused by the unique index or done;
\* create_user then returns, to its caller or to create_superuser
Save(c) ==
    /\ pc[c] = "save"
    /\ IF UniqueViolation(users, user[c])
       THEN /\ pc' = [pc EXCEPT ![c] = "failed"]
            /\ err' = [err EXCEPT ![c] = IntegrityError]
            /\ UNCHANGED <<users, user>>
       ELSE /\ users' = SaveInsert(users, user[c])
            /\ user' = [user EXCEPT ![c].pk = Len(users) + 1]
            /\ pc' = [pc EXCEPT ![c] =
                        IF op[c] = "create_superuser" THEN "promote" ELSE "done"]
            /\ err' = err
    /\ UNCHANGED <<op, args, Env, lastIssue>>

\* variant: only is_staff set
SetSuperFlagsStaffOnly(u) == [u EXCEPT !.is_staff = TRUE]

\* lines 51-52 of create_superuser: both flags set on the instance
SetSuperFlags(u) == [u EXCEPT !.is_superuser = TRUE, !.is_staff = TRUE]

\* lines 51-53 of create_superuser: the flags, then the second save, an
\* UPDATE of the row
Promote(c) ==
    /\ pc[c] = "promote"
    /\ LET u == SetSuperFlags(user[c])
       IN /\ user' = [user EXCEPT ![c] = u]
          /\ users' = SaveUpdate(users, u)
    /\ pc' = [pc EXCEPT ![c] = "done"]
    /\ UNCHANGED <<op, args, err, Env, lastIssue>>

\* line 53 raising: the store refuses the second save and the row stays as
\* the first save left it
PromoteFail(c) ==
    /\ pc[c] = "promote"
    /\ user' = [user EXCEPT ![c] = SetSuperFlags(user[c])]
    /\ pc' = [pc EXCEPT ![c] = "failed"]
    /\ err' = [err EXCEPT ![c] = DatabaseError]
    /\ UNCHANGED <<users, op, args, Env, lastIssue>>

\* an account is deactivated: its row's is_active is cleared (the operation
\* the comment of lines 83-88 announces; this file holds no code for it)
Deactivate(pk) ==
    /\ pk \in DOMAIN users
    /\ users[pk].is_active
    /\ users' = [users EXCEPT ![pk].is_active = FALSE]
    /\ UNCHANGED <<pc, op, args, user, err, Env, lastIssue>>

\* User.token is read on the persisted account pk at the UTC instant t
IssueToken(pk, t) ==
    /\ pk \in DOMAIN users
    /\ lastIssue.pk # 0 => t >= lastIssue.at
    /\ lastIssue' = [pk |-> pk, at |-> t,
                     token |-> GenerateJwtToken(users[pk], LocalNow(t), secret)]
    /\ UNCHANGED <<users, pc, op, args, user, err, Env>>

ArgSets == [firstname : FirstNames, lastname : LastNames,
            email : Emails, password : Passwords]

Next ==
    \/ \E c \in Calls, a \in ArgSets, salt \in Salts : CreateUser(c, a, salt)
    \/ \E c \in Calls, a \in ArgSets, salt \in Salts : CreateSuperuser(c, a, salt)
    \/ \E c \in Calls : Save(c)
    \/ \E c \in Calls : Promote(c)
    \/ \E c \in Calls : PromoteFail(c)
    \/ \E pk \in 1..Cardinality(Calls) : Deactivate(pk)
    \/ \E pk \in 1..Cardinality(Calls), t \in 0..MaxClock : IssueToken(pk, t)

Spec == Init /\ [][Next]_vars

\* Operations one after another: a step is taken only while no other call is
\* between its first step and its return.
InFlight(c) == pc[c] \in {"save", "promote"}
Alone(c) == \A d \in Calls \ {c} : ~InFlight(d)
Quiet == \A c \in Calls : ~InFlight(c)

SeqNext ==
    \/ \E c \in Calls, a \in ArgSets, salt \in Salts : Alone(c) /\ CreateUser(c, a, salt)
    \/ \E c \in Calls, a \in ArgSets, salt \in Salts : Alone(c) /\ CreateSuperuser(c, a, salt)
    \/ \E c \in Calls : Alone(c) /\ Save(c)
    \/ \E c \in Calls : Alone(c) /\ Promote(c)
    \/ \E c \in Calls : Alone(c) /\ PromoteFail(c)
    \/ \E pk \in 1..Cardinality(Calls) : Quiet /\ Deactivate(pk)
    \/ \E pk \in 1..Cardinality(Calls), t \in 0..MaxClock : Quiet /\ IssueToken(pk, t)

SeqSpec == Init /\ [][SeqNext]_vars

----------------------------------------------------------------------------
(* Properties *)

\* the row call c persisted
Row(c) == users[user[c].pk]

Persisted(c) == user[c].pk # 0

\* the call is one the claims name as missing a required argument
MissingRequired(o, a) ==
    \/ /\ o = "create_user"
       /\ (a.firstname = None \/ a.lastname = None \/ a.email = None)
    \/ /\ o = "create_superuser"
       /\ a.password = None

\* a call with every argument create_user needs
ValidCreate(c) ==
    /\ op[c] = "create_user"
    /\ ~MissingRequired(op[c], args[c])

\* C1: a create_user call with a null firstname, lastname or email, and a
\* create_superuser call with a null password, fails in the step that makes
\* it, whatever its other arguments are, and the table after that step is
\* the table before it; such a call never persists a row.
C1_ValidationLeavesStore ==
    /\ [](\A c \in Calls :
            (op[c] # "none" /\ MissingRequired(op[c], args[c]))
                => (pc[c] = "failed" /\ ~Persisted(c)))
    /\ [][\A c \in Calls :
            (pc[c] = "idle" /\ pc'[c] # "idle" /\ MissingRequired(op'[c], args'[c]))
                => (pc'[c] = "failed" /\ users' = users)]_vars

\* a create_user call with only its lastname null has failed while the table
\* holds an account
C1_Witness ==
    \E c \in Calls :
        /\ op[c] = "create_user"
        /\ args[c].lastname = None
        /\ args[c].firstname # None
        /\ args[c].email # None
        /\ pc[c] = "failed"
        /\ Len(users) = 1

\* C2 as claimed: the error of a call missing a required argument is of kind
\* ValidationError.
C2_Claimed ==
    \A c \in Calls :
        (op[c] # "none" /\ MissingRequired(op[c], args[c]) /\ pc[c] = "failed")
            => err[c].kind = "ValidationError"

\* C2 amended: the error of a create_user call with a null firstname,
\* lastname or email, and of a create_superuser call with a null password,
\* is of kind TypeError and of no other kind.
C2_TypeError ==
    \A c \in Calls :
        (op[c] # "none" /\ MissingRequired(op[c], args[c]))
            => (pc[c] = "failed" /\ err[c].kind = "TypeError")

\* a create_superuser call with a null password and otherwise valid
\* arguments has raised
C2_Witness ==
    \E c \in Calls :
        /\ op[c] = "create_superuser"
        /\ args[c].password = None
        /\ args[c].firstname # None /\ args[c].lastname # None
        /\ args[c].email # None
        /\ err[c].kind = "TypeError"

\* the part of an address before its last "@", and the part after it
LocalPart(e) == SubSeq(e, 1, LastAt(e) - 1)
DomainPart(e) == SubSeq(e, LastAt(e) + 1, Len(e))

\* the two addresses differ at most in the letter case of the domain part
SameUpToDomainCase(e1, e2) ==
    /\ LocalPart(e1) = LocalPart(e2)
    /\ Lower(DomainPart(e1)) = Lower(DomainPart(e2))

\* C3 as claimed: of two create_user calls whose emails are equal after
\* case normalisation (of the local part or of the domain part), at most one
\* persists an account.
C3_Claimed ==
    \A c, d \in Calls :
        (c # d /\ ValidCreate(c) /\ ValidCreate(d)
              /\ Lower(args[c].email) = Lower(args[d].email))
            => ~(pc[c] = "done" /\ pc[d] = "done")

\* C3 amended: of two create_user calls whose emails are equal once the
\* domain part is lowercased (the local part compared as written), at most
\* one persists an account, and the one that fails does so with a uniqueness
\* violation raised against a row already stored under that email.
C3_DomainNormalized ==
    \A c, d \in Calls :
        (c # d /\ ValidCreate(c) /\ ValidCreate(d)
              /\ SameUpToDomainCase(args[c].email, args[d].email))
            => /\ ~(pc[c] = "done" /\ pc[d] = "done")
               /\ pc[d] = "failed"
                    => /\ err[d] = IntegrityError
                       /\ ~Persisted(d)
                       /\ \E pk \in DOMAIN users :
                            SameUpToDomainCase(users[pk].email, args[d].email)

\* a@b was created, and then a@B was refused as a duplicate
C3_Witness ==
    \E c, d \in Calls :
        /\ ValidCreate(c) /\ ValidCreate(d)
        /\ args[c].email = <<"a", "@", "b">>
        /\ args[d].email = <<"a", "@", "B">>
        /\ pc[c] = "done"
        /\ pc[d] = "failed"
        /\ err[d] = IntegrityError

\* C4: no two rows of the table hold the same email, and of two calls
\* (create_user or create_superuser, in any interleaving) building accounts
\* with the same email at most one has a row.
C4_EmailUnique ==
    /\ \A p, q \in DOMAIN users : p # q => users[p].email # users[q].email
    /\ \A c, d \in Calls :
        (c # d /\ user[c] # NoUser /\ user[d] # NoUser
              /\ user[c].email = user[d].email)
            => ~(Persisted(c) /\ Persisted(d))

\* a create_superuser and a create_user call for one email overlapped: the
\* first has inserted its row and not yet returned, the second was refused
C4_Witness ==
    \E c, d \in Calls :
        /\ op[c] = "create_superuser" /\ op[d] = "create_user"
        /\ user[c] # NoUser /\ user[d] # NoUser
        /\ user[c].email = user[d].email
        /\ pc[c] = "promote"
        /\ pc[d] = "failed"
        /\ err[d] = IntegrityError

\* the distance of two whole numbers
Dist(x, y) == IF x >= y THEN x - y ELSE y - x

\* C5: the token read for an account carries the account's pk as id and, as
\* exp, the read's UTC instant plus sixty days in milliseconds, within a
\* tolerance of five seconds, whatever the process's time-zone offset.
C5_Claimed ==
    LET tolerance == 5
    IN lastIssue.pk # 0 =>
        /\ lastIssue.token.id = lastIssue.pk
        /\ lastIssue.token.exp.per = 1000
        /\ Dist(lastIssue.token.exp.sec, lastIssue.at + SixtyDays) <= tolerance

\* C6: a read of User.token changes neither the table nor the secret nor
\* any call's state, and the token it returns is the one computed from the
\* account's pk, the clock and the secret whatever the other fields of the
\* account are.
C6_TokenPure ==
    /\ [][lastIssue' # lastIssue =>
            /\ users' = users
            /\ secret' = secret
            /\ <<pc, op, args, user, err>>' = <<pc, op, args, user, err>>]_vars
    /\ [](lastIssue.pk # 0 =>
            \A pk \in DOMAIN users :
                GenerateJwtToken([users[pk] EXCEPT !.pk = lastIssue.pk],
                                 LocalNow(lastIssue.at), secret)
                    = lastIssue.token)

\* a token was read for account 1 while a create_superuser call stood between
\* its two saves of account 2
C6_Witness ==
    /\ lastIssue.pk = 1
    /\ \E c \in Calls : pc[c] = "promote" /\ user[c].pk = 2

\* C7: the step that completes a call leaves the call's row active; a
\* completed create_superuser has a row with is_staff and is_superuser set;
\* a row persisted by create_user never has either flag set.
C7_Flags ==
    /\ [](\A c \in Calls :
            (op[c] = "create_user" /\ Persisted(c))
                => (~Row(c).is_staff /\ ~Row(c).is_superuser))
    /\ [](\A c \in Calls :
            (op[c] = "create_superuser" /\ pc[c] = "done")
                => (Row(c).is_staff /\ Row(c).is_superuser))
    /\ [][\A c \in Calls :
            (pc[c] # "done" /\ pc'[c] = "done")
                => users'[user'[c].pk].is_active]_vars

\* a create_superuser call and a create_user call have both completed
C7_Witness ==
    \E c, d \in Calls :
        /\ op[c] = "create_superuser" /\ pc[c] = "done"
        /\ op[d] = "create_user" /\ pc[d] = "done"

\* what someone may try as a password: the inputs, the empty string, and the
\* stored unusable marker itself
Guesses == (Passwords \ {None}) \cup {<<>>} \cup {<<"!", salt>> : salt \in Salts}

\* C8: every row's password is non-empty and differs from the plaintext
\* given to the call that made it; a row made with no password holds an
\* unusable marker that no plaintext matches.
C8_PasswordHashed ==
    /\ \A pk \in DOMAIN users : users[pk].password # <<>>
    /\ \A c \in Calls :
        Persisted(c) =>
            /\ Row(c).password # args[c].password
            /\ args[c].password = None =>
                 /\ ~IsPasswordUsable(Row(c).password)
                 /\ \A raw \in Guesses : ~CheckPassword(raw, Row(c).password)

\* a create_user call with no password has persisted its account
C8_Witness ==
    \E c \in Calls :
        /\ op[c] = "create_user"
        /\ args[c].password = None
        /\ pc[c] = "done"

C10_TwoSaves ==
    /\ [](\A c \in Calls :
            (op[c] = "create_superuser" /\ args[c].password = None)
                => /\ pc[c] = "failed"
                   /\ err[c] = TypeError("Superusers must have a password.")
                   /\ ~Persisted(c))
    /\ [](\A pk \in DOMAIN users : users[pk].is_staff = users[pk].is_superuser)
    /\ [](\A c \in Calls :
            (op[c] = "create_superuser"
                  /\ (pc[c] = "promote" \/ (pc[c] = "failed" /\ err[c] = DatabaseError)))
                => /\ user[c].pk \in DOMAIN users
                   /\ ~Row(c).is_staff
                   /\ ~Row(c).is_superuser
                   /\ \A pk \in DOMAIN users :
                        users[pk].email = Row(c).email => pk = user[c].pk)
    /\ [][\A pk \in DOMAIN users' :
            (users'[pk].is_staff \/ users'[pk].is_superuser)
                => pk \in DOMAIN users]_vars

\* a create_superuser call whose second save failed: the account is stored,
\* without the flags
C10_Witness ==
    \E c \in Calls :
        /\ op[c] = "create_superuser"
        /\ pc[c] = "failed"
        /\ err[c] = DatabaseError
        /\ ~Row(c).is_staff

=============================================================================
